---- MODULE Spec2Model ----
(***************************************************************************)
(* Model of app/main.py: code-based instructor / player login over a       *)
(* cookie session, the instructor_favorites toggle, player creation with   *)
(* a timestamp-derived login code, the roster grouping and the player      *)
(* dashboard series.                                                       *)
(*                                                                         *)
(* Strings the code manipulates (login codes, names) are sequences of      *)
(* one-character strings, so that strip(), str() and slicing are computed. *)
(* Integer ids use 0 for "absent": the handlers test `if not inst_id`,     *)
(* which treats None and 0 alike.                                          *)
(***************************************************************************)
EXTENDS Integers, Sequences, FiniteSets, Bags, TLC

VARIABLES
    instructors,   \* table instructors: sequence of rows, id = index
    players,       \* table players: sequence of rows, id = index
    favorites,     \* table instructor_favorites: bag of (instructor_id, player_id) rows
    metrics,       \* table metrics: bag of (player_id, taken_at, exit_velocity) rows
    session,       \* the browser's signed session cookie
    now,           \* int(datetime.utcnow().timestamp())
    req,           \* the last request handled
    resp,          \* the response to it
    fav_before,    \* history: favorites as it was when the last request arrived
    prev_toggle,   \* history: the request before the last one, when it was a
                   \*          successful toggle
    created,       \* history: id of the row added by the create-player request
                   \*          that wrote session.create_success
    inflight       \* requests being handled concurrently (per worker)

vars == <<instructors, players, favorites, metrics, session, now, req, resp,
          fav_before, prev_toggle, created, inflight>>

----------------------------------------------------------------------------
(* Bounds of the model *)

MaxPlayers == 2        \* rows the players table may grow to
MaxSkew == 1           \* seconds the clock may advance past a code wrap
MaxPlayerId == 3       \* largest player id a favorite request names
MaxRoster == 3         \* players in a roster handed to the grouping
MaxMetrics == 22       \* rows the metrics table may grow to
MaxOther == 1          \* metrics rows of a player other than the one viewed

(* Values of the program and its environment *)

Limit == 20
CodeLen == 6
Epoch0 == 1793999999
(* str(...)[-6:] repeats every 10^6 seconds *)
WrapPeriod == 10 ^ CodeLen

NULL == <<"NULL">>

AGE_GROUPS == <<"7-9", "10-12", "13-15", "16-18", "18+">>

AgeGroupSet == {AGE_GROUPS[i] : i \in 1..Len(AGE_GROUPS)}

DefaultCode == <<"9", "9", "9", "9", "9", "9">>

----------------------------------------------------------------------------
(* str methods *)

Whitespace == {" ", "\t", "\n"}

RECURSIVE LStrip(_)
LStrip(s) ==
    IF s = <<>> THEN s
    ELSE IF Head(s) \in Whitespace THEN LStrip(Tail(s)) ELSE s

RECURSIVE RStrip(_)
RStrip(s) ==
    IF s = <<>> THEN s
    ELSE IF s[Len(s)] \in Whitespace THEN RStrip(SubSeq(s, 1, Len(s) - 1)) ELSE s

Strip(s) == RStrip(LStrip(s))

Digits == <<"0", "1", "2", "3", "4", "5", "6", "7", "8", "9">>

RECURSIVE Str(_)
Str(n) ==
    IF n < 10 THEN <<Digits[n + 1]>>
    ELSE Append(Str(n \div 10), Digits[(n % 10) + 1])

LastChars(s, k) == IF Len(s) <= k THEN s ELSE SubSeq(s, Len(s) - k + 1, Len(s))

MintCode(t) == LastChars(Str(t), CodeLen)

(* Binary collation of the characters used in names *)
Collation == <<" ", "D", "J", "R">>

Ord(c) == CHOOSE i \in 1..Len(Collation) : Collation[i] = c

RECURSIVE StrLeq(_, _)
StrLeq(a, b) ==
    IF a = <<>> THEN TRUE
    ELSE IF b = <<>> THEN FALSE
    ELSE IF Head(a) = Head(b) THEN StrLeq(Tail(a), Tail(b))
    ELSE Ord(Head(a)) < Ord(Head(b))

----------------------------------------------------------------------------
(* Rows and queries *)

InstructorRow(code) == [name |-> "Coach", login_code |-> code]

PlayerRow(fn, ln, ag, code) ==
    [first_name |-> fn, last_name |-> ln, age_group |-> ag, login_code |-> code]

FavoriteRow(i, p) == [instructor_id |-> i, player_id |-> p]

MetricRow(p, t, ev) == [player_id |-> p, taken_at |-> t, exit_velocity |-> ev]

Min(S) == CHOOSE x \in S : \A y \in S : x <= y

FirstWhere(rows, code) ==
    LET hits == {i \in 1..Len(rows) :
                    rows[i].login_code # NULL /\ rows[i].login_code = code}
    IN  IF hits = {} THEN 0 ELSE Min(hits)

(* db.query(Instructor).filter(Instructor.login_code == code.strip()).first() *)
(* a lookup of the code as typed *)
FindInstructorNoStrip(code) == FirstWhere(instructors, code)

FindInstructor(code) == FirstWhere(instructors, Strip(code))

(* a lookup of the code as typed *)
FindPlayerNoStrip(code) == FirstWhere(players, code)

(* db.query(Player).filter(Player.login_code == code.strip()).first() *)
FindPlayer(code) == FirstWhere(players, Strip(code))

(* ORDER BY last_name, first_name *)
NameLeq(p, q) ==
    IF p.last_name = q.last_name THEN StrLeq(p.first_name, q.first_name)
    ELSE StrLeq(p.last_name, q.last_name)

(* Every order the database may return the rows `ids` of players in: sorted
   by name, rows of equal name in any order. *)
RECURSIVE Orderings(_, _)
Orderings(rows, ids) ==
    IF ids = {} THEN {<<>>}
    ELSE UNION {{<<i>> \o rest : rest \in Orderings(rows, ids \ {i})} :
                  i \in {j \in ids : \A k \in ids : NameLeq(rows[j], rows[k])}}

(* players JOIN instructor_favorites ON player_id = players.id
   WHERE instructor_id = inst_id *)
JoinedIds(rows, favs, inst_id) ==
    {p \in 1..Len(rows) : BagIn(FavoriteRow(inst_id, p), favs)}

(* the join returns a player once per favorite row that names it *)
RECURSIVE PerFavoriteRow(_, _, _)
PerFavoriteRow(order, favs, inst_id) ==
    IF order = <<>> THEN <<>>
    ELSE [k \in 1..CopiesIn(FavoriteRow(inst_id, Head(order)), favs) |-> Head(order)]
         \o PerFavoriteRow(Tail(order), favs, inst_id)

(* f"{fn} {ln}".strip() *)
FullName(p) == Strip(p.first_name \o <<" ">> \o p.last_name)

ClientRecord(rows, pid) ==
    [id |-> pid, name |-> FullName(rows[pid]), age_group |-> rows[pid].age_group]

(* a table without the constraint *)
NoUniqueFavorite(row) == TRUE

(* UNIQUE(instructor_id, player_id) *)

UniqueFavoriteOk(row) == ~BagIn(row, favorites)

(* a delete that is not flushed *)
KeepRow(favs, row) == favs

(* db.delete(fav); db.commit() *)
DeleteRow(favs, row) == favs (-) SetToBag({row})

(* db.add(InstructorFavorite(...)); db.commit() *)
InsertRow(favs, row) == favs (+) SetToBag({row})

(* a column without the constraint *)
NoUniqueCode(code) == TRUE

(* players.login_code UNIQUE: NULLs never conflict *)

UniqueCodeOk(code) ==
    code = NULL \/ \A i \in 1..Len(players) : players[i].login_code # code

(* SQLite (the default DATABASE_URL) runs with foreign keys off: no PRAGMA
   foreign_keys is issued, so favorites may name a player that does not exist *)
ForeignKeyOk(row) == TRUE

EmptySession == [instructor_id |-> 0, player_id |-> 0, create_success |-> NULL]

Redirect(route, to) == [route |-> route, status |-> 303, body |-> to]

Template(route, name, error) ==
    [route |-> route, status |-> 200, body |-> [template |-> name, error |-> error]]

ServerError(route) == [route |-> route, status |-> 500, body |-> NULL]

NoRequest == [route |-> "none", arg |-> NULL]

NoResponse == [route |-> "none", status |-> 0, body |-> NULL]

NoToggle == [req |-> NoRequest, resp |-> NoResponse, fav_before |-> EmptyBag]

Idle == [pc |-> "idle"]

Workers == {1, 2}

----------------------------------------------------------------------------
(* Inputs *)

OtherCode == <<"1", "2", "3", "4", "5", "6">>

Padded(code) == <<" ">> \o code \o <<"\n">>

KnownCodes ==
    {instructors[i].login_code : i \in 1..Len(instructors)}
    \cup {players[i].login_code : i \in 1..Len(players)}

CodeInputs ==
    {c \in KnownCodes : c # NULL} \cup {Padded(c) : c \in KnownCodes \ {NULL}}
    \cup {<<"0">>}

(* create-player forms: first name, last name, age group *)
Forms == {<<<<"J", " ">>, <<" ", "D">>, "basketball">>, <<<<"J">>, <<"R">>, "10-12">>}

PlayerIds == 1..MaxPlayerId

Steps == {1, WrapPeriod}

----------------------------------------------------------------------------
(* Handlers, one request at a time *)

Handled(r, out) ==
    /\ req' = r
    /\ resp' = out
    /\ fav_before' = favorites
    /\ prev_toggle' = IF req.route = "toggle_favorite" /\ resp.status = 200
                      THEN [req |-> req, resp |-> resp, fav_before |-> fav_before]
                      ELSE NoToggle

(* seed_demo_instructor *)
SeedDemoInstructor ==
    instructors' = IF Len(instructors) = 0
                   THEN <<InstructorRow(DefaultCode)>>
                   ELSE instructors

(* GET /instructor *)
InstructorLogin ==
    /\ SeedDemoInstructor
    /\ Handled([route |-> "instructor_login", arg |-> NULL],
               Template("instructor_login", "instructor_login.html", NULL))
    /\ UNCHANGED <<players, favorites, metrics, session, now, created, inflight>>

(* POST /instructor *)
InstructorDoLogin(code) ==
    LET coach == FindInstructor(code)
        r == [route |-> "instructor_do_login", arg |-> code]
    IN  /\ IF coach = 0
           THEN /\ Handled(r, Template("instructor_do_login", "instructor_login.html",
                                       "Invalid login code."))
                /\ UNCHANGED session
           ELSE /\ session' = [session EXCEPT !.instructor_id = coach]
                /\ Handled(r, Redirect("instructor_do_login", "/instructor/clients"))
        /\ UNCHANGED <<instructors, players, favorites, metrics, now, created, inflight>>

(* GET /logout *)
Logout ==
    /\ session' = EmptySession
    /\ created' = 0
    /\ Handled([route |-> "logout", arg |-> NULL], Redirect("logout", "/"))
    /\ UNCHANGED <<instructors, players, favorites, metrics, now, inflight>>

(* POST /player *)
PlayerDoLogin(code) ==
    LET p == FindPlayer(code)
        r == [route |-> "player_do_login", arg |-> code]
    IN  /\ IF p = 0
           THEN /\ Handled(r, Template("player_do_login", "player_login.html",
                                       "Invalid login code."))
                /\ UNCHANGED session
           ELSE /\ session' = [session EXCEPT !.player_id = p]
                /\ Handled(r, Redirect("player_do_login", "/player/dashboard"))
        /\ UNCHANGED <<instructors, players, favorites, metrics, now, created, inflight>>

(* a handler without the session test *)
AlwaysLoggedIn(inst_id) == TRUE

(* `if not inst_id` *)

LoggedIn(inst_id) == inst_id # 0

(* the JSON body of a successful toggle, for each order the query may return *)
ToggleBodies(favs, inst_id, favorited) ==
    {[ok |-> TRUE, favorited |-> favorited,
      my_clients |-> [k \in 1..Len(my) |-> ClientRecord(players, my[k])]] :
        my \in {PerFavoriteRow(o, favs, inst_id) :
                   o \in Orderings(players, JoinedIds(players, favs, inst_id))}}

(* POST /instructor/favorite/{player_id} *)
ToggleFavorite(player_id) ==
    LET inst_id == session.instructor_id
        row == FavoriteRow(inst_id, player_id)
        r == [route |-> "toggle_favorite", arg |-> player_id]
    IN  /\ IF ~LoggedIn(inst_id)
           THEN /\ Handled(r, [route |-> "toggle_favorite", status |-> 401,
                               body |-> [ok |-> FALSE, error |-> "not_logged_in"]])
                /\ UNCHANGED favorites
           ELSE IF BagIn(row, favorites)
           THEN /\ favorites' = DeleteRow(favorites, row)
                /\ \E body \in ToggleBodies(favorites', inst_id, FALSE) :
                      Handled(r, [route |-> "toggle_favorite", status |-> 200,
                                  body |-> body])
           ELSE IF UniqueFavoriteOk(row) /\ ForeignKeyOk(row)
           THEN /\ favorites' = InsertRow(favorites, row)
                /\ \E body \in ToggleBodies(favorites', inst_id, TRUE) :
                      Handled(r, [route |-> "toggle_favorite", status |-> 200,
                                  body |-> body])
           ELSE /\ Handled(r, ServerError("toggle_favorite"))
                /\ UNCHANGED favorites
        /\ UNCHANGED <<instructors, players, metrics, session, now, created, inflight>>

SuccessMessage(code) == <<"Player created. Login code: ">> \o code

(* age_group allow-list with its fallback *)
StoredAgeGroup(age_group) == IF age_group \in AgeGroupSet THEN age_group ELSE "13-15"

(* POST /instructor/create-player *)
CreatePlayer(first_name, last_name, age_group) ==
    LET inst_id == session.instructor_id
        code == MintCode(now)
        p == PlayerRow(Strip(first_name), Strip(last_name),
                       StoredAgeGroup(age_group), code)
        r == [route |-> "create_player", arg |-> NULL]
    IN  /\ Len(players) < MaxPlayers
        /\ IF ~LoggedIn(inst_id)
           THEN /\ Handled(r, Redirect("create_player", "/instructor"))
                /\ UNCHANGED <<players, session, created>>
           ELSE IF UniqueCodeOk(code)
           THEN /\ players' = Append(players, p)
                /\ session' = [session EXCEPT !.create_success = SuccessMessage(code)]
                /\ created' = Len(players')
                /\ Handled(r, Redirect("create_player", "/instructor/clients"))
           ELSE /\ Handled(r, ServerError("create_player"))
                /\ UNCHANGED <<players, session, created>>
        /\ UNCHANGED <<instructors, favorites, metrics, now, inflight>>

(* the wall clock moves on between requests *)
Tick(d) ==
    /\ now + d <= Epoch0 + WrapPeriod + MaxSkew
    /\ (now + d - Epoch0) % WrapPeriod <= MaxSkew
    /\ now' = now + d
    /\ UNCHANGED <<instructors, players, favorites, metrics, session, req, resp,
                   fav_before, prev_toggle, created, inflight>>

----------------------------------------------------------------------------

InitialInstructors == {<<>>, <<InstructorRow(OtherCode), InstructorRow(DefaultCode)>>}

InitialPlayers ==
    {<<>>,
     <<PlayerRow(<<"J">>, <<"D">>, "18+", NULL)>>,
     <<PlayerRow(<<"J">>, <<"R">>, "basketball", MintCode(Epoch0 + 1))>>}

Init ==
    /\ instructors \in InitialInstructors
    /\ players \in InitialPlayers
    /\ favorites = EmptyBag
    /\ metrics = EmptyBag
    /\ session = EmptySession
    /\ now = Epoch0
    /\ req = NoRequest
    /\ resp = NoResponse
    /\ fav_before = EmptyBag
    /\ prev_toggle = NoToggle
    /\ created = 0
    /\ inflight = [w \in Workers |-> Idle]

Next ==
    \/ InstructorLogin
    \/ \E code \in CodeInputs : InstructorDoLogin(code)
    \/ Logout
    \/ \E code \in CodeInputs : PlayerDoLogin(code)
    \/ \E form \in Forms : CreatePlayer(form[1], form[2], form[3])
    \/ \E d \in Steps : Tick(d)

(* Logins, logout and player creation, one request at a time *)
Spec == Init /\ [][Next]_vars

----------------------------------------------------------------------------
(* Favorites: instructors logging in and out and toggling favorites over a
   players table that player creation has already filled *)

CreatedRow(form, t) ==
    PlayerRow(Strip(form[1]), Strip(form[2]), StoredAgeGroup(form[3]), MintCode(t))

FavRosters ==
    InitialPlayers
    \cup {<<CreatedRow(f, Epoch0), CreatedRow(g, Epoch0 + 1)>> : f, g \in Forms}

InitFav ==
    /\ instructors \in InitialInstructors
    /\ players \in FavRosters
    /\ favorites = EmptyBag
    /\ metrics = EmptyBag
    /\ session = EmptySession
    /\ now = Epoch0 + 1
    /\ req = NoRequest
    /\ resp = NoResponse
    /\ fav_before = EmptyBag
    /\ prev_toggle = NoToggle
    /\ created = 0
    /\ inflight = [w \in Workers |-> Idle]

NextFav ==
    \/ InstructorLogin
    \/ \E code \in CodeInputs : InstructorDoLogin(code)
    \/ Logout
    \/ \E player_id \in PlayerIds : ToggleFavorite(player_id)

SpecFav == InitFav /\ [][NextFav]_vars

----------------------------------------------------------------------------
(* Concurrent requests of one browser logged in as an instructor: each worker
   handles one request, and the steps of two requests interleave between a
   handler's query and its commit *)

Creating == {w \in Workers : inflight[w].pc = "create"}

(* toggle_favorite up to its query for the existing row *)
ToggleQuery(w, player_id) ==
    /\ inflight[w].pc = "idle"
    /\ LoggedIn(session.instructor_id)
    /\ inflight' = [inflight EXCEPT ![w] =
          [pc |-> "toggle", sess |-> session, player_id |-> player_id,
           fav |-> BagIn(FavoriteRow(session.instructor_id, player_id), favorites)]]
    /\ UNCHANGED <<instructors, players, favorites, metrics, session, now, req, resp,
                   fav_before, prev_toggle, created>>

(* toggle_favorite from its delete or add to its response *)
ToggleCommit(w) ==
    LET inst_id == inflight[w].sess.instructor_id
        row == FavoriteRow(inst_id, inflight[w].player_id)
        r == [route |-> "toggle_favorite", arg |-> inflight[w].player_id]
    IN  /\ inflight[w].pc = "toggle"
        /\ IF inflight[w].fav
           THEN /\ favorites' = DeleteRow(favorites, row)
                /\ session' = inflight[w].sess
                /\ \E body \in ToggleBodies(favorites', inst_id, FALSE) :
                      Handled(r, [route |-> "toggle_favorite", status |-> 200,
                                  body |-> body])
           ELSE IF UniqueFavoriteOk(row) /\ ForeignKeyOk(row)
           THEN /\ favorites' = InsertRow(favorites, row)
                /\ session' = inflight[w].sess
                /\ \E body \in ToggleBodies(favorites', inst_id, TRUE) :
                      Handled(r, [route |-> "toggle_favorite", status |-> 200,
                                  body |-> body])
           ELSE /\ Handled(r, ServerError("toggle_favorite"))
                /\ UNCHANGED <<favorites, session>>
        /\ inflight' = [inflight EXCEPT ![w] = Idle]
        /\ UNCHANGED <<instructors, players, metrics, now, created>>

(* create_player up to the minting of the login code *)
CreateMint(w, first_name, last_name, age_group) ==
    /\ inflight[w].pc = "idle"
    /\ LoggedIn(session.instructor_id)
    /\ Len(players) + Cardinality(Creating) < MaxPlayers
    /\ inflight' = [inflight EXCEPT ![w] =
          [pc |-> "create", sess |-> session,
           row |-> PlayerRow(Strip(first_name), Strip(last_name),
                             StoredAgeGroup(age_group), MintCode(now))]]
    /\ UNCHANGED <<instructors, players, favorites, metrics, session, now, req, resp,
                   fav_before, prev_toggle, created>>

(* create_player from db.add / db.commit to its response *)
CreateCommit(w) ==
    LET p == inflight[w].row
        r == [route |-> "create_player", arg |-> NULL]
    IN  /\ inflight[w].pc = "create"
        /\ IF UniqueCodeOk(p.login_code)
           THEN /\ players' = Append(players, p)
                /\ session' = [inflight[w].sess EXCEPT
                                  !.create_success = SuccessMessage(p.login_code)]
                /\ created' = Len(players')
                /\ Handled(r, Redirect("create_player", "/instructor/clients"))
           ELSE /\ Handled(r, ServerError("create_player"))
                /\ UNCHANGED <<players, session, created>>
        /\ inflight' = [inflight EXCEPT ![w] = Idle]
        /\ UNCHANGED <<instructors, favorites, metrics, now>>

InitRace ==
    /\ instructors = <<InstructorRow(OtherCode), InstructorRow(DefaultCode)>>
    /\ players \in InitialPlayers
    /\ favorites = EmptyBag
    /\ metrics = EmptyBag
    /\ session \in {[EmptySession EXCEPT !.instructor_id = i] :
                       i \in 1..Len(instructors)}
    /\ now = Epoch0
    /\ req = NoRequest
    /\ resp = NoResponse
    /\ fav_before = EmptyBag
    /\ prev_toggle = NoToggle
    /\ created = 0
    /\ inflight = [w \in Workers |-> Idle]

NextRace ==
    \/ \E w \in Workers, player_id \in PlayerIds : ToggleQuery(w, player_id)
    \/ \E w \in Workers : ToggleCommit(w)

(* Concurrent favorite toggles *)
SpecRace == InitRace /\ [][NextRace]_vars

NextMint ==
    \/ \E w \in Workers, form \in Forms :
          CreateMint(w, form[1], form[2], form[3])
    \/ \E w \in Workers : CreateCommit(w)
    \/ \E d \in Steps : Tick(d)

(* Concurrent player creations *)
SpecMint == InitRace /\ [][NextMint]_vars

----------------------------------------------------------------------------
(* The roster page *)

(* the fallback of the create path used for display *)
BucketOfWriteFallback(grouped, age_group) ==
    IF age_group \in DOMAIN grouped THEN age_group ELSE "13-15"

(* grouped.get(p.age_group, grouped["18+"]) *)
BucketOf(grouped, age_group) ==
    IF age_group \in DOMAIN grouped THEN age_group ELSE "18+"

(* group_players_by_age, over the list `order` of ids of `rows` *)
RECURSIVE GroupInto(_, _, _)
GroupInto(grouped, rows, order) ==
    IF order = <<>> THEN grouped
    ELSE GroupInto([grouped EXCEPT ![BucketOf(grouped, rows[Head(order)].age_group)] =
                        Append(@, Head(order))],
                   rows, Tail(order))

GroupPlayersByAge(rows, order) == GroupInto([g \in AgeGroupSet |-> <<>>], rows, order)

(* get_favorite_ids *)
GetFavoriteIds(inst_id) ==
    {row.player_id : row \in {f \in BagToSet(favorites) : f.instructor_id = inst_id}}

(* GET /instructor/clients *)
InstructorClients ==
    LET inst_id == session.instructor_id
        r == [route |-> "instructor_clients", arg |-> NULL]
    IN  /\ IF ~LoggedIn(inst_id)
           THEN Handled(r, Redirect("instructor_clients", "/instructor"))
           ELSE \E all \in Orderings(players, 1..Len(players)),
                   mine \in Orderings(players, JoinedIds(players, favorites, inst_id)) :
                  Handled(r, [route |-> "instructor_clients", status |-> 200,
                              body |-> [template |-> "instructor_players.html",
                                        players |-> all,
                                        groups |-> GroupPlayersByAge(players, all),
                                        fav_ids |-> GetFavoriteIds(inst_id),
                                        my_clients |->
                                            PerFavoriteRow(mine, favorites, inst_id)]])
        /\ UNCHANGED <<instructors, players, favorites, metrics, session, now, created,
                       inflight>>

StoredAgeGroups == AgeGroupSet \cup {"basketball"}

StoredLastNames == {<<"D">>, <<"R">>}

(* players tables of up to MaxRoster rows, however they were stored *)
Rosters ==
    UNION {[1..n -> {PlayerRow(<<"J">>, ln, ag, NULL) :
                        ln \in StoredLastNames, ag \in StoredAgeGroups}] :
             n \in 0..MaxRoster}

InitRoster ==
    /\ instructors = <<InstructorRow(DefaultCode)>>
    /\ players \in Rosters
    /\ favorites \in {EmptyBag, SetToBag({FavoriteRow(1, 1), FavoriteRow(1, MaxRoster + 1)})}
    /\ metrics = EmptyBag
    /\ session \in {EmptySession, [EmptySession EXCEPT !.instructor_id = 1]}
    /\ now = Epoch0
    /\ req = NoRequest
    /\ resp = NoResponse
    /\ fav_before = EmptyBag
    /\ prev_toggle = NoToggle
    /\ created = 0
    /\ inflight = [w \in Workers |-> Idle]

NextRoster == InstructorClients

SpecRoster == InitRoster /\ [][NextRoster]_vars

----------------------------------------------------------------------------
(* The player dashboard.  A taken_at is a number of hours since 1 January
   00:00 of a common year; an exit_velocity is in hundredths.  NoTime and
   NoValue stand for NULL: SQLite sorts NULL before every value. *)

NoTime == 0 - 1

NoValue == 0 - 1

MonthNames == <<"Jan", "Feb", "Mar", "Apr", "May", "Jun",
                "Jul", "Aug", "Sep", "Oct", "Nov", "Dec">>

MonthDays == <<31, 28, 31, 30, 31, 30, 31, 31, 30, 31, 30, 31>>

RECURSIVE MonthDay(_, _)
MonthDay(month, day) ==
    IF day < MonthDays[month] THEN <<month, day + 1>>
    ELSE MonthDay(month + 1, day - MonthDays[month])

ZeroPad2(n) == IF n < 10 THEN <<"0">> \o Str(n) ELSE Str(n)

(* m.taken_at.strftime("%b %d") *)
Strftime(t) ==
    LET md == MonthDay(1, t \div 24)
    IN  <<MonthNames[md[1]], " ">> \o ZeroPad2(md[2])

(* round(x, 1) of a value in hundredths, in tenths; the values used are not
   halfway between two tenths *)
Round1(h) == (h + 5) \div 10

(* round((m.exit_velocity or 0.0), 1) *)
EvVal(m) == Round1(IF m.exit_velocity = NoValue THEN 0 ELSE m.exit_velocity)

PlayerMetrics(player_id) ==
    LET rows == {m \in BagToSet(metrics) : m.player_id = player_id}
    IN  [m \in rows |-> CopiesIn(m, metrics)]

(* ORDER BY taken_at DESC: every order the rows of bag `b` may come in *)
RECURSIVE DescOrders(_)
DescOrders(b) ==
    IF BagToSet(b) = {} THEN {<<>>}
    ELSE UNION {{<<m>> \o rest : rest \in DescOrders(b (-) SetToBag({m}))} :
                  m \in {x \in BagToSet(b) :
                            \A y \in BagToSet(b) : y.taken_at <= x.taken_at}}

(* a query without its limit *)
TakeAll(rows, k) == rows

(* .limit(k) *)
Take(rows, k) == IF Len(rows) <= k THEN rows ELSE SubSeq(rows, 1, k)

Reversed(rows) == [i \in 1..Len(rows) |-> rows[Len(rows) + 1 - i]]

(* GET /player/dashboard *)
PlayerDashboard ==
    LET player_id == session.player_id
        r == [route |-> "player_dashboard", arg |-> NULL]
    IN  /\ IF player_id = 0 \/ player_id > Len(players)
           THEN Handled(r, Redirect("player_dashboard", "/player"))
           ELSE \E desc \in DescOrders(PlayerMetrics(player_id)) :
                  LET pts == Reversed(Take(desc, Limit))
                  IN  IF \E k \in 1..Len(pts) : pts[k].taken_at = NoTime
                      THEN Handled(r, ServerError("player_dashboard"))
                      ELSE Handled(r,
                             [route |-> "player_dashboard", status |-> 200,
                              body |-> [template |-> "player_dashboard.html",
                                        player |-> player_id,
                                        pts |-> pts,
                                        labels |-> [k \in 1..Len(pts) |->
                                                      Strftime(pts[k].taken_at)],
                                        ev_vals |-> [k \in 1..Len(pts) |-> EvVal(pts[k])],
                                        latest |-> IF pts # <<>> THEN pts[Len(pts)]
                                                   ELSE MetricRow(0, NoTime, NoValue)]])
        /\ UNCHANGED <<instructors, players, favorites, metrics, session, now, created,
                       inflight>>

Jan31Morning == 30 * 24 + 10

Feb01Morning == 31 * 24 + 9

(* the rows that may be stored for player 1, and how many of each *)
OlderRow == MetricRow(1, Jan31Morning, 8734)

NewerRow == MetricRow(1, Feb01Morning, 9187)

NoValueRow == MetricRow(1, Feb01Morning, NoValue)

NoTimeRow == MetricRow(1, NoTime, 8734)

OtherRow == MetricRow(2, Feb01Morning, 8734)

RowCap(m) ==
    IF m \in {OlderRow, NewerRow} THEN MaxMetrics
    ELSE IF m = OtherRow THEN MaxOther
    ELSE 1

(* a metrics row is stored (no handler does it: rows arrive from outside).
   The dashboard only reads, so every table it can see is reached by storing
   the rows before the first request. *)
InsertMetric(m) ==
    /\ req = NoRequest
    /\ BagCardinality(metrics) < MaxMetrics
    /\ CopiesIn(m, metrics) < RowCap(m)
    /\ metrics' = metrics (+) SetToBag({m})
    /\ UNCHANGED <<instructors, players, favorites, session, now, req, resp,
                   fav_before, prev_toggle, created, inflight>>

InitDash ==
    /\ instructors = <<InstructorRow(DefaultCode)>>
    /\ players \in {r \in FavRosters : Len(r) = 2}
    /\ favorites = EmptyBag
    /\ metrics = EmptyBag
    /\ session \in {[EmptySession EXCEPT !.player_id = i] : i \in 0..3}
    /\ now = Epoch0 + 1
    /\ req = NoRequest
    /\ resp = NoResponse
    /\ fav_before = EmptyBag
    /\ prev_toggle = NoToggle
    /\ created = 0
    /\ inflight = [w \in Workers |-> Idle]

NextDash ==
    \/ \E m \in {OlderRow, NewerRow, NoValueRow, NoTimeRow, OtherRow} : InsertMetric(m)
    \/ PlayerDashboard

SpecDash == InitDash /\ [][NextDash]_vars

----------------------------------------------------------------------------
(* Properties *)

Range(f) == {f[k] : k \in DOMAIN f}

ToggleAnswered == req.route = "toggle_favorite" /\ resp.status = 200

ToggledTwice ==
    /\ ToggleAnswered
    /\ prev_toggle.req.route = "toggle_favorite"
    /\ prev_toggle.req.arg = req.arg

(* C1: two consecutive successful toggles of the same player by the logged-in
   instructor leave the favorites table as it was before the first, and the
   `favorited` flags of the two responses differ, each being true exactly
   when the pair was absent before its call. *)
C1_ToggleTwiceRestores ==
    ToggledTwice =>
        LET pair == FavoriteRow(session.instructor_id, req.arg)
        IN  /\ favorites = prev_toggle.fav_before
            /\ prev_toggle.resp.body.favorited = ~BagIn(pair, prev_toggle.fav_before)
            /\ resp.body.favorited = ~BagIn(pair, fav_before)
            /\ resp.body.favorited # prev_toggle.resp.body.favorited

C1_Witness ==
    /\ ToggledTwice
    /\ ~resp.body.favorited
    /\ favorites # EmptyBag
    /\ req.arg <= Len(players)

(* C2: a login request whose stripped code is an instructor's login_code
   sets instructor_id to that instructor's id, changes no other session key
   and redirects to /instructor/clients; any other code leaves the session
   as it was and renders the login form with an error. *)
C2_InstructorLogin ==
    [][\A code \in CodeInputs :
         InstructorDoLogin(code) =>
           LET valid == {i \in 1..Len(instructors) :
                           instructors[i].login_code = Strip(code)}
           IN  IF valid # {}
               THEN /\ \E i \in valid :
                         session' = [session EXCEPT !.instructor_id = i]
                    /\ resp'.status = 303
                    /\ resp'.body = "/instructor/clients"
               ELSE /\ session' = session
                    /\ resp'.status = 200
                    /\ resp'.body.template = "instructor_login.html"
                    /\ resp'.body.error = "Invalid login code."]_vars

C2_Witness ==
    /\ req.route = "instructor_do_login"
    /\ req.arg = Padded(DefaultCode)
    /\ resp.status = 303
    /\ session.instructor_id = 2
    /\ session.player_id # 0

(* C3: a toggle request whose session holds no instructor_id is answered 401
   with ok = false, and the favorites table is as it was before the request. *)
C3_UnauthenticatedToggle ==
    (req.route = "toggle_favorite" /\ session.instructor_id = 0) =>
        /\ resp.status = 401
        /\ resp.body.ok = FALSE
        /\ favorites = fav_before

C3_Witness ==
    /\ req.route = "toggle_favorite"
    /\ session.instructor_id = 0
    /\ resp.status = 401
    /\ favorites # EmptyBag

(* C4: the session never holds both instructor_id and player_id. *)
C4_AtMostOneIdentity == ~(session.instructor_id # 0 /\ session.player_id # 0)

IsNumericCode(c) == Len(c) = 6 /\ \A k \in 1..Len(c) : c[k] \in Range(Digits)

(* C5: a create-player request that redirects to /instructor/clients leaves
   a success message with a six-digit code in the session and has added one
   row; a player login with the code of the session's success message then
   sets player_id to the id of the row that request added. *)
C5_CreatedCodeLogsIn ==
    [][/\ \A form \in Forms :
            (/\ CreatePlayer(form[1], form[2], form[3])
             /\ resp'.status = 303
             /\ resp'.body = "/instructor/clients")
            => /\ session'.create_success # NULL
               /\ Head(session'.create_success) = "Player created. Login code: "
               /\ IsNumericCode(Tail(session'.create_success))
               /\ Len(players') = Len(players) + 1
               /\ created' = Len(players')
       /\ \A code \in CodeInputs :
            (/\ session.create_success # NULL
             /\ Strip(code) = Tail(session.create_success)
             /\ PlayerDoLogin(code))
            => /\ created # 0
               /\ session'.player_id = created
               /\ resp'.status = 303
               /\ resp'.body = "/player/dashboard"]_vars

C5_Witness ==
    /\ req.route = "player_do_login"
    /\ resp.status = 303
    /\ session.create_success # NULL
    /\ Strip(req.arg) = Tail(session.create_success)
    /\ created = 2
    /\ session.player_id = created

(* C6: instructor_favorites never holds two rows with the same
   (instructor_id, player_id), whatever the interleaving of toggles. *)
C6_FavoritePairUnique ==
    \A row \in BagToSet(favorites) : CopiesIn(row, favorites) <= 1

(* two toggles both found the pair absent, and the second to commit was refused *)
C6_Witness ==
    /\ req.route = "toggle_favorite"
    /\ resp.status = 500
    /\ BagIn(FavoriteRow(session.instructor_id, req.arg), favorites)

(* C7: no two players rows share a login_code that is not NULL, whatever
   the interleaving of create-player requests. *)
C7_LoginCodeUnique ==
    \A i, j \in 1..Len(players) :
        (i # j /\ players[i].login_code = players[j].login_code)
            => players[i].login_code = NULL

(* two requests minted their codes in the same second; one added its row and
   the other was refused *)
C7_Witness ==
    /\ req.route = "create_player"
    /\ resp.status = 500
    /\ now = Epoch0
    /\ created # 0
    /\ players[created].login_code = MintCode(now)

DashboardRendered == req.route = "player_dashboard" /\ resp.status = 200

RECURSIVE SeqToBag(_)
SeqToBag(q) == IF q = <<>> THEN EmptyBag ELSE SetToBag({Head(q)}) (+) SeqToBag(Tail(q))

MinOf(a, b) == IF a <= b THEN a ELSE b

(* C8: on a rendered dashboard of a player with n metrics, labels and
   ev_vals both have length min(20, n); they are the labels and rounded
   values of min(20, n) of the player's rows, oldest first, none of the rows
   left out being more recent than one shown; latest is the last row shown,
   or absent when n = 0. *)
C8_DashboardSeries ==
    DashboardRendered =>
        LET mine == PlayerMetrics(session.player_id)
            n == BagCardinality(mine)
            body == resp.body
            shown == SeqToBag(body.pts)
            rest == mine (-) shown
        IN  /\ Len(body.labels) = MinOf(Limit, n)
            /\ Len(body.ev_vals) = MinOf(Limit, n)
            /\ Len(body.pts) = MinOf(Limit, n)
            /\ shown \sqsubseteq mine
            /\ \A i, j \in 1..Len(body.pts) :
                  i < j => body.pts[i].taken_at <= body.pts[j].taken_at
            /\ \A m \in BagToSet(rest), k \in 1..Len(body.pts) :
                  m.taken_at <= body.pts[k].taken_at
            /\ \A k \in 1..Len(body.pts) :
                  /\ body.labels[k] = Strftime(body.pts[k].taken_at)
                  /\ body.ev_vals[k] =
                        (IF body.pts[k].exit_velocity = NoValue THEN 0
                         ELSE (body.pts[k].exit_velocity + 5) \div 10)
            /\ IF n = 0 THEN body.latest.player_id = 0
               ELSE body.latest = body.pts[Len(body.pts)]

C8_Witness ==
    /\ DashboardRendered
    /\ BagCardinality(PlayerMetrics(session.player_id)) > Limit
    /\ Len(resp.body.labels) = Limit
    /\ resp.body.pts[1] = OlderRow
    /\ resp.body.pts[Limit - 1] = NoValueRow
    /\ resp.body.latest = NewerRow
    /\ BagIn(OtherRow, metrics)

RosterRendered == req.route = "instructor_clients" /\ resp.status = 200

Recognised(age_group) ==
    age_group \in {"7-9", "10-12", "13-15", "16-18", "18+"}

(* C9: on a rendered roster the groups are the five buckets; every player
   is in exactly one place of exactly one bucket, the bucket of its age_group
   when that is one of the five and "18+" otherwise; and a bucket lists its
   players in the order of the list that was grouped. *)
C9_GroupingTotal ==
    RosterRendered =>
        LET groups == resp.body.groups
            order == resp.body.players
            places == {<<g, k>> \in (DOMAIN groups) \X (1..Len(order)) :
                          k <= Len(groups[g])}
            pos(id) == CHOOSE k \in 1..Len(order) : order[k] = id
        IN  /\ DOMAIN groups = {"7-9", "10-12", "13-15", "16-18", "18+"}
            /\ Range(order) = 1..Len(players)
            /\ \A id \in 1..Len(players) :
                  /\ Cardinality({pl \in places : groups[pl[1]][pl[2]] = id}) = 1
                  /\ id \in Range(groups[IF Recognised(players[id].age_group)
                                          THEN players[id].age_group ELSE "18+"])
            /\ \A pl \in places : groups[pl[1]][pl[2]] \in 1..Len(players)
            /\ \A g \in DOMAIN groups : \A k, l \in 1..Len(groups[g]) :
                  k < l => pos(groups[g][k]) < pos(groups[g][l])

C9_Witness ==
    /\ RosterRendered
    /\ Len(players) >= 3
    /\ \E id \in 1..Len(players) : ~Recognised(players[id].age_group)
    /\ Len(resp.body.groups["18+"]) >= 2
    /\ Len(resp.body.groups["10-12"]) >= 1

(* C10: on a successful toggle, favorited is true exactly when the toggled
   player_id is among the ids of my_clients, and my_clients lists exactly the
   players whose pair with the instructor is in the favorites table. *)
C10_ToggleResponseConsistent ==
    ToggleAnswered =>
        LET ids == {resp.body.my_clients[k].id : k \in 1..Len(resp.body.my_clients)}
        IN  /\ resp.body.favorited <=> req.arg \in ids
            /\ ids = {p \in 1..Len(players) :
                         BagIn(FavoriteRow(session.instructor_id, p), favorites)}

====
